---- MODULE Spec2Model ----
(***************************************************************************)
(* A model of yt_transcript.py: the identifier resolver                    *)
(* (extract_video_id_from_url), the collection enumerator                  *)
(* (get_playlist_video_ids, get_channel_video_ids), the transcript fetcher *)
(* (get_video_transcript), the batch orchestrator                          *)
(* (extract_transcripts_batch), the dispatcher (extract_from_url) and the  *)
(* command (main) in its batch-file and single-input modes.                *)
(*                                                                         *)
(* Python strings are sequences of one-character strings.  Python's None   *)
(* is the one-element tuple None below, which no string equals.            *)
(***************************************************************************)
EXTENDS Integers, Sequences, FiniteSets, TLC

\* ------------------------------------------------------------------ bounds

\* Largest collection the listing endpoint holds.
MaxN == 120
\* Largest max_results a caller passes.
MaxMaxResults == 110
\* Longest batch of identifiers.
MaxBatch == 3
\* Most segments of a transcript fetched on its own.
MaxSegments == 2
\* Requests of one enumeration among which the endpoint may answer with pages
\* of no items.
MaxCalls == 3
\* Most lines of a batch file.
MaxLines == 3

\* ------------------------------------------------------- values and strings

None == <<"None">>

\* Python truthiness of an Optional[str] / list: None and the empty value are falsy.
Truthy(x) == x # None /\ x # << >>

Min(a, b) == IF a <= b THEN a ELSE b

\* s[i:i+len(p)] == p (1-based i)
IsSubstrAt(s, p, i) ==
    /\ i >= 1
    /\ i + Len(p) - 1 <= Len(s)
    /\ SubSeq(s, i, i + Len(p) - 1) = p

\* p in s
Contains(s, p) == \E i \in 1..(Len(s) - Len(p) + 1) : IsSubstrAt(s, p, i)

\* s.split(c)[-1]: what follows the last c (all of s when c does not occur)
SplitLast(s, c) ==
    LET hits == {i \in 1..Len(s) : s[i] = c}
        last == IF hits = {} THEN 0 ELSE CHOOSE i \in hits : \A j \in hits : j <= i
    IN  SubSeq(s, last + 1, Len(s))

\* s.split(c)[0]: what precedes the first c (all of s when c does not occur)
SplitFirst(s, c) ==
    LET hits == {i \in 1..Len(s) : s[i] = c}
        first == IF hits = {} THEN Len(s) + 1 ELSE CHOOSE i \in hits : \A j \in hits : i <= j
    IN  SubSeq(s, 1, first - 1)

\* ------------------------------------------------------ identifier resolver

\* The character class [0-9A-Za-z_-]
IdChars == {"0", "1", "2", "3", "4", "5", "6", "7", "8", "9",
            "A", "B", "C", "D", "E", "F", "G", "H", "I", "J", "K", "L", "M",
            "N", "O", "P", "Q", "R", "S", "T", "U", "V", "W", "X", "Y", "Z",
            "a", "b", "c", "d", "e", "f", "g", "h", "i", "j", "k", "l", "m",
            "n", "o", "p", "q", "r", "s", "t", "u", "v", "w", "x", "y", "z",
            "_", "-"}

\* The {11} of both patterns.
IdLen == 11

\* 'youtu.be'
ShortHost == <<"y", "o", "u", "t", "u", ".", "b", "e">>

\* [0-9A-Za-z_-]{11} matches at position q of s
ClassRun(s, q) ==
    /\ q >= 1
    /\ q + IdLen - 1 <= Len(s)
    /\ \A k \in q..(q + IdLen - 1) : s[k] \in IdChars

\* Where group 1 starts if (?:v=|\/)([0-9A-Za-z_-]{11}).* matches at position p, else 0.
\* The trailing .* matches the empty string, so it never makes a match fail.
GroupStartAt(s, p) ==
    IF IsSubstrAt(s, <<"v", "=">>, p) /\ ClassRun(s, p + 2) THEN p + 2
    ELSE IF p <= Len(s) /\ s[p] = "/" /\ ClassRun(s, p + 1) THEN p + 1
    ELSE 0

\* re.search(r'(?:v=|\/)([0-9A-Za-z_-]{11}).*', url): group 1 of the leftmost match, or None
SearchVideoId(url) ==
    LET hits == {p \in 1..Len(url) : GroupStartAt(url, p) # 0}
    IN  IF hits = {} THEN None
        ELSE LET p == CHOOSE x \in hits : \A y \in hits : x <= y
                 g == GroupStartAt(url, p)
             IN  SubSeq(url, g, g + IdLen - 1)

\* re.match(r'^[0-9A-Za-z_-]{11}$', url); $ also matches before one trailing newline
MatchesBareId(url) ==
    /\ ClassRun(url, 1)
    /\ \/ Len(url) = IdLen
       \/ Len(url) = IdLen + 1 /\ url[IdLen + 1] = "\n"

\* The short-link branch: url.split('/')[-1].split('?')[0]
ShortLinkId(url) == SplitFirst(SplitLast(url, "/"), "?")

\* The resolver without its bare-identifier rule.
extract_video_id_from_url_NoBareRule(url) ==
    IF Contains(url, ShortHost) THEN ShortLinkId(url)
    ELSE IF SearchVideoId(url) # None THEN SearchVideoId(url)
    ELSE None

\* Lines 80-93.
extract_video_id_from_url(url) ==
    IF Contains(url, ShortHost) THEN ShortLinkId(url)
    ELSE IF SearchVideoId(url) # None THEN SearchVideoId(url)
    ELSE IF MatchesBareId(url) THEN url
    ELSE None

\* --------------------------------------------------------- transcript fetcher

\* Characters \s matches (and str.strip removes) among those the model uses.
Whitespace == {" ", "\n", "\t", "\r"}

\* " ".join(parts)
RECURSIVE JoinSpace(_)
JoinSpace(parts) ==
    IF parts = << >> THEN << >>
    ELSE IF Len(parts) = 1 THEN parts[1]
    ELSE parts[1] \o <<" ">> \o JoinSpace(Tail(parts))

\* re.sub(r'\s+', ' ', s): every maximal run of whitespace becomes one space
RECURSIVE CollapseWs(_)
CollapseWs(s) ==
    IF s = << >> THEN << >>
    ELSE IF Head(s) \in Whitespace
         THEN IF Len(s) >= 2 /\ s[2] \in Whitespace
              THEN CollapseWs(Tail(s))
              ELSE <<" ">> \o CollapseWs(Tail(s))
         ELSE <<Head(s)>> \o CollapseWs(Tail(s))

\* s.strip()
Strip(s) ==
    LET solid == {i \in 1..Len(s) : s[i] \notin Whitespace}
    IN  IF solid = {} THEN << >>
        ELSE SubSeq(s, CHOOSE i \in solid : \A j \in solid : i <= j,
                       CHOOSE i \in solid : \A j \in solid : j <= i)

\* The normalisation without its final strip().
NormalizeTranscript_NoStrip(segments) == CollapseWs(JoinSpace(segments))

\* Lines 52-55: join the segments' texts, collapse whitespace, trim.
NormalizeTranscript(segments) == Strip(CollapseWs(JoinSpace(segments)))

\* The remote transcript service's answers to one fetch.
RespOk(segments) == [kind |-> "ok", segments |-> segments]
RespDisabled == [kind |-> "TranscriptsDisabled", segments |-> << >>]
RespNoTranscript == [kind |-> "NoTranscriptFound", segments |-> << >>]
RespOther == [kind |-> "OtherError", segments |-> << >>]

\* A handler that catches TranscriptsDisabled alone.
CaughtKinds_DisabledOnly == {"TranscriptsDisabled"}

\* The exception kinds line 62 catches.
CaughtKinds == {"TranscriptsDisabled", "NoTranscriptFound"}

\* get_video_transcript under the service's answer resp: what it returns
\* (raised = FALSE, value = the dictionary) or that it raises (raised = TRUE).
get_video_transcript(video_id, resp) ==
    IF resp.kind = "ok"
    THEN [raised |-> FALSE,
          value |-> [video_id |-> video_id,
                     transcript |-> NormalizeTranscript(resp.segments)]]
    ELSE IF resp.kind \in CaughtKinds
    THEN [raised |-> FALSE,
          value |-> [video_id |-> video_id, transcript |-> None, error |-> resp.kind]]
    ELSE [raised |-> TRUE, value |-> [video_id |-> video_id]]

\* Line 63: what get_video_transcript prints under the answer resp: a notice
\* when it catches the exception, nothing otherwise.
FetchNotices(resp) ==
    IF resp.kind \in CaughtKinds
    THEN {"Error extracting transcript for video"} ELSE {}

\* Lines 44-49: the transcript service call a fetch starts with.
TranscriptEntryCall(language) ==
    IF Truthy(language) THEN "list_transcripts" ELSE "get_transcript"

\* ------------------------------------------------------ collection enumerator

\* The platform's maximum page size (line 116).
PageCap == 50

\* Item j of a collection, in listing order.
ItemId(j) == <<"v", j>>

\* The first m identifiers of a collection, in listing order.
FirstIds(m) == [j \in 1..m |-> ItemId(j)]

\* The opaque continuation cursor for offset pos.
Cursor(pos) == <<"tok", pos>>

\* The "list playlist items" endpoint on a collection of n items: the page that
\* starts at the cursor, of at most pageSize items, and the cursor of the next
\* page when items remain.  The service may hold back `short` items of a page
\* (it still returns at least one when any is due).
ListPlaylistItems(n, pageToken, pageSize, short) ==
    LET start == IF pageToken = None THEN 0 ELSE pageToken[2]
        full == IF pageSize <= 0 THEN 0 ELSE Min(pageSize, n - start)
        k == IF full - short >= 1 THEN full - short ELSE full
    IN  [items |-> [j \in 1..k |-> ItemId(start + j)],
         nextPageToken |-> IF start + k < n THEN Cursor(start + k) ELSE None]

\* A second cursor for offset pos: cursors are opaque, and two of them may
\* stand for the same place.
AltCursor(pos) == <<"alt", pos>>

\* The same endpoint answering with a page of no items that still carries a
\* cursor for the place the request was at.
StalledPages(pageToken) ==
    LET start == IF pageToken = None THEN 0 ELSE pageToken[2]
    IN  {[items |-> << >>, nextPageToken |-> token] :
            token \in {Cursor(start), AltCursor(start)}}

\* The credential check left out.
KeyMissing_Never(key) == FALSE

\* Lines 106 and 148: not self.api_key
KeyMissing(key) == ~Truthy(key)

\* The page size as the cap alone.
PageSize_CapOnly(max_results, collected) == PageCap

\* The page size without the count already collected.
PageSize_NoSubtract(max_results, collected) == Min(max_results, PageCap)

\* Line 116: maxResults=min(max_results - len(video_ids), 50)
PageSize(max_results, collected) == Min(max_results - collected, PageCap)

\* Line 128: not next_page_token or len(video_ids) >= max_results
PagingDone(token, collected, max_results) ==
    ~Truthy(token) \/ collected >= max_results

\* The progress discarded on an HttpError.
AfterHttpError_Discard(collected_ids) == << >>

\* Lines 131-135: what the enumeration returns once a call raised HttpError.
AfterHttpError(collected_ids) == collected_ids

\* ----------------------------------------------------------- batch orchestrator

\* The save test as "transcript is not None".
ShouldSave_NotNone(output_dir, transcript) == Truthy(output_dir) /\ transcript # None

\* Line 192: output_dir and transcript_data.get('transcript')
ShouldSave(output_dir, transcript) == Truthy(output_dir) /\ Truthy(transcript)

\* Line 193: f"{video_id}.txt"
FileName(video_id) == video_id \o <<".", "t", "x", "t">>

\* Line 194-195: open(output_file, 'w') and write: the file's content is replaced.
WriteFile(fs, name, text) ==
    [f \in DOMAIN fs \cup {name} |-> IF f = name THEN text ELSE fs[f]]

\* Line 199: i < len(video_ids) - 1, with i counted from 0
SleepAfter(i, n) == i < n - 1

\* ----------------------------------------------------------------------- main

\* Line 293: [line.strip() for line in f if line.strip()]
RECURSIVE VideoUrls(_)
VideoUrls(lines) ==
    IF lines = << >> THEN << >>
    ELSE LET url == Strip(Head(lines))
         IN  (IF Truthy(url) THEN <<url>> ELSE << >>) \o VideoUrls(Tail(lines))

\* The loop of lines 296-301 ended at the first reference that does not resolve.
RECURSIVE ResolveAll_StopAtFailure(_)
ResolveAll_StopAtFailure(video_urls) ==
    IF video_urls = << >> THEN << >>
    ELSE LET video_id == extract_video_id_from_url(Head(video_urls))
         IN  IF Truthy(video_id)
             THEN <<video_id>> \o ResolveAll_StopAtFailure(Tail(video_urls))
             ELSE << >>

\* Lines 295-301: the identifiers appended, one per reference that resolves.
RECURSIVE ResolveAll(_)
ResolveAll(video_urls) ==
    IF video_urls = << >> THEN << >>
    ELSE LET video_id == extract_video_id_from_url(Head(video_urls))
         IN  (IF Truthy(video_id) THEN <<video_id>> ELSE << >>)
                \o ResolveAll(Tail(video_urls))

\* Lines 300-301: whether some reference is reported as not resolved.
SomeUnresolved(video_urls) ==
    \E i \in 1..Len(video_urls) : ~Truthy(extract_video_id_from_url(video_urls[i]))

\* The substrings extract_from_url looks for (lines 216, 223, 236, 241, 248).
WatchPath == <<"y", "o", "u", "t", "u", "b", "e", ".", "c", "o", "m", "/", "w", "a", "t", "c", "h">>
ShortPath == <<"y", "o", "u", "t", "u", ".", "b", "e", "/">>
PlaylistPath == <<"y", "o", "u", "t", "u", "b", "e", ".", "c", "o", "m", "/", "p", "l", "a", "y", "l", "i", "s", "t">>
ChannelPath == <<"y", "o", "u", "t", "u", "b", "e", ".", "c", "o", "m", "/", "c", "h", "a", "n", "n", "e", "l", "/">>
CustomPath == <<"y", "o", "u", "t", "u", "b", "e", ".", "c", "o", "m", "/", "c", "/">>
UserPath == <<"y", "o", "u", "t", "u", "b", "e", ".", "c", "o", "m", "/", "u", "s", "e", "r", "/">>
ListParam == <<"l", "i", "s", "t", "=">>

\* Lines 216-273: the branch extract_from_url takes on url.
UrlKind(url) ==
    IF Contains(url, WatchPath) \/ Contains(url, ShortPath) THEN "video"
    ELSE IF Contains(url, PlaylistPath) THEN "playlist"
    ELSE IF \E x \in {ChannelPath, CustomPath, UserPath} : Contains(url, x) THEN "channel"
    ELSE "unrecognized"

\* Lines 224-228: re.search(r'list=([^&]+)', url) and group(1); None without a match.
PlaylistIdOf(url) ==
    LET starts == {i \in 1..Len(url) :
                      /\ IsSubstrAt(url, ListParam, i)
                      /\ i + Len(ListParam) <= Len(url)
                      /\ url[i + Len(ListParam)] # "&"}
    IN  IF starts = {} THEN None
        ELSE LET i == CHOOSE a \in starts : \A b \in starts : a <= b
                 rest == SubSeq(url, i + Len(ListParam), Len(url))
             IN  SplitFirst(rest, "&")

\* The default max_results of get_playlist_video_ids and get_channel_video_ids
\* (lines 95 and 137), which extract_from_url leaves in place.
DefaultMaxResults == 50

\* The process's exit status: 1 when an exception leaves main, else 0.
ExitStatus(how) == IF how = "raised" THEN 1 ELSE 0

\* ------------------------------------------------------------------ inputs

Key == <<"A", "I", "z", "a", "K", "e", "y">>
Dir == <<"o", "u", "t">>

IdA == <<"d", "Q", "w", "4", "w", "9", "W", "g", "X", "c", "Q">>
IdB == <<"a", "-", "b", "_", "c", "0", "D", "1", "E", "2", "f">>
IdV == <<"v", "_", "y", "o", "u", "t", "u", "-", "b", "e", "X">>
CandNewline == <<"d", "Q", "w", "4", "w", "9", "W", "g", "X", "c", "Q", "\n">>
CandShort == <<"a", "b", "c">>
CandLong == <<"d", "Q", "w", "4", "w", "9", "W", "g", "X", "c", "Q", "X">>

PrefixShort == <<"h", "t", "t", "p", "s", ":", "/", "/", "y", "o", "u", "t", "u", ".", "b", "e", "/">>
PrefixWatch == <<"h", "t", "t", "p", "s", ":", "/", "/", "w", "w", "w", ".", "y", "o", "u", "t", "u", "b", "e", ".", "c", "o", "m", "/", "w", "a", "t", "c", "h", "?", "v", "=">>
PrefixOther == <<"h", "t", "t", "p", "s", ":", "/", "/", "e", "x", "a", "m", "p", "l", "e", ".", "c", "o", "m", "/">>

SufQueryT == <<"?", "t", "=", "1", "0">>
SufAmpT == <<"&", "t", "=", "1", "0">>
SufFeature == <<"&", "f", "e", "a", "t", "u", "r", "e", "=", "y", "o", "u", "t", "u", ".", "b", "e">>
SufSlash == <<"/">>

Seg1 == <<"N", "e", "v", "e", "r", " ">>
Seg2 == <<"g", "o", "n", "n", "a", " ">>
Seg3 == <<"g", "i", "v", "e", " ", "y", "o", "u", " ", "u", "p">>
SegWs == <<"a", "\n", "\n", " ", " ", "b", " ", " ", " ", "c">>
SegBlank == <<" ", "\n">>
SegTab == <<"\t", "x", "\r">>
LangEn == <<"e", "n">>

\* Credentials a process is started with: none, the empty string, a key.
ApiKeys == {None, << >>, Key}

\* References handed to the resolver: a prefix, a candidate identifier, a suffix.
Prefixes == {<< >>, PrefixShort, PrefixWatch, PrefixOther}
WellFormedIds == {IdA, IdB}
ResolverIds == WellFormedIds \cup {IdV}
Candidates == ResolverIds \cup {<< >>, CandShort, CandLong, CandNewline}
Suffixes == {<< >>, SufQueryT, SufAmpT, SufFeature, SufSlash}

\* Collection sizes and max_results values: those at and next to each multiple
\* of ten, which include the page cap, its multiples and their neighbours.
NearTen(n) == n % 10 \in {0, 1, 9}
CollectionSizes == {n \in 0..MaxN : NearTen(n)}
MaxResultsValues == {m \in 1..MaxMaxResults : NearTen(m)}

\* Whether the listing endpoint may answer with pages of no items that carry a
\* cursor: tried on the collections and limits that are multiples of ten.
StallChoices(n, m) == IF n % 10 = 0 /\ m % 10 = 0 THEN BOOLEAN ELSE {FALSE}

\* How many items the listing endpoint may hold back from a page.
ShortBy == {0, 1}

\* Batches of identifiers, repeats included.
RECURSIVE SeqsUpTo(_, _)
SeqsUpTo(S, n) ==
    IF n = 0 THEN {<< >>}
    ELSE LET shorter == SeqsUpTo(S, n - 1)
         IN  shorter \cup {Append(s, x) : s \in {t \in shorter : Len(t) = n - 1}, x \in S}
Batches == SeqsUpTo(WellFormedIds, MaxBatch)
OutputDirs == {None, Dir}

\* What the transcript service answers to one fetch.
SegmentLists == {<< >>, <<SegBlank>>, <<SegWs>>, <<Seg1, Seg2, Seg3>>}
Responses == {RespOk(s) : s \in SegmentLists}
                \cup {RespDisabled, RespNoTranscript, RespOther}

\* What it answers to a single get_video_transcript call: also every list of
\* up to MaxSegments segments.
Segments == {<< >>, Seg1, Seg3, SegWs, SegBlank, SegTab}
FetchResponses == Responses \cup {RespOk(s) : s \in SeqsUpTo(Segments, MaxSegments)}
Languages == {None, LangEn}

\* What it answers to a fetch made under main.
MainResponses == {RespOk(<<Seg1, Seg2, Seg3>>), RespOk(<< >>), RespDisabled, RespOther}

\* The lines of a batch file, as iterating the file gives them: whitespace
\* only, an identifier, a short link after a space, a word that is no
\* reference, a short link to that word, a short link to nothing.
LineBlank == <<" ", "\t", "\n">>
LineId == IdA \o <<"\n">>
LineShortUrl == <<" ">> \o PrefixShort \o IdB \o <<"\n">>
LineWord == CandShort \o <<"\n">>
LineShortWord == PrefixShort \o CandShort \o <<"\n">>
LineShortNothing == PrefixShort \o <<"\n">>
FileLines == {LineBlank, LineId, LineShortUrl, LineWord, LineShortWord, LineShortNothing}
FileContents == SeqsUpTo(FileLines, MaxLines)

\* The single positional input of main: short links and watch URLs with an
\* identifier, a word or nothing after them, a bare identifier, playlist and
\* channel URLs of every form, and a URL of another site.
UrlPlaylist == <<"h", "t", "t", "p", "s", ":", "/", "/", "w", "w", "w", ".", "y", "o", "u", "t", "u", "b", "e", ".", "c", "o", "m", "/", "p", "l", "a", "y", "l", "i", "s", "t", "?", "l", "i", "s", "t", "=", "P", "L", "1", "&", "i", "n", "d", "e", "x", "=", "2">>
UrlPlaylistNoList == <<"h", "t", "t", "p", "s", ":", "/", "/", "w", "w", "w", ".", "y", "o", "u", "t", "u", "b", "e", ".", "c", "o", "m", "/", "p", "l", "a", "y", "l", "i", "s", "t", "?", "i", "n", "d", "e", "x", "=", "2">>
UrlChannel == <<"h", "t", "t", "p", "s", ":", "/", "/", "w", "w", "w", ".", "y", "o", "u", "t", "u", "b", "e", ".", "c", "o", "m", "/", "c", "h", "a", "n", "n", "e", "l", "/", "U", "C", "1", "/", "v", "i", "d", "e", "o", "s">>
UrlCustom == <<"h", "t", "t", "p", "s", ":", "/", "/", "w", "w", "w", ".", "y", "o", "u", "t", "u", "b", "e", ".", "c", "o", "m", "/", "c", "/", "n", "a", "m", "e">>
UrlUser == <<"h", "t", "t", "p", "s", ":", "/", "/", "w", "w", "w", ".", "y", "o", "u", "t", "u", "b", "e", ".", "c", "o", "m", "/", "u", "s", "e", "r", "/", "n", "a", "m", "e">>
VideoInputs == {PrefixShort \o IdA, PrefixShort \o CandShort, PrefixShort,
                PrefixWatch \o IdB, PrefixWatch \o IdA \o SufFeature}
CollectionInputs == {UrlPlaylist, UrlPlaylistNoList, UrlChannel, UrlCustom, UrlUser}
MainInputs == VideoInputs \cup CollectionInputs \cup {IdA, PrefixOther \o CandShort}

\* ------------------------------------------------------------------- state

VARIABLES
    api_key,          \* self.api_key, set by __init__
    pc,               \* "idle", "lookup", "paging", "name_lookup", "loop", "summary", "done"
    op,               \* the operation called: "resolve", "fetch", "playlist", "channel", "batch",
                      \* or main in a mode: "main_file", "main_url"
    args,             \* the call's arguments
    world,            \* what the remote services hold for this call
    outcome,          \* "none", "returned", "raised"
    exc,              \* the exception raised, when outcome = "raised"
    retval,           \* the value returned, boxed, when outcome = "returned"
    calls,            \* remote calls of the content API issued so far
    stdout,           \* the notices printed
    video_ids,        \* get_playlist_video_ids' accumulated list
    next_page_token,  \* get_playlist_video_ids' cursor
    idx,              \* extract_transcripts_batch's loop index i, from 0
    results,          \* extract_transcripts_batch's results list
    responses,        \* the transcript service's answers so far, in order
    files,            \* the files written: name -> content
    fetcher_ids,      \* the identifiers handed to get_video_transcript, in order
    trace,            \* the remote requests, responses and sleeps, in order
    exchanges         \* get_playlist_video_ids' list requests, each with its response

vars == <<api_key, pc, op, args, world, outcome, exc, retval, calls, stdout,
          video_ids, next_page_token, idx, results, responses, files,
          fetcher_ids, trace, exchanges>>

enumVars == <<video_ids, next_page_token>>
batchVars == <<idx, results, responses, files, fetcher_ids>>

NoArgs == [none |-> TRUE]

\* The value the call returned; None before it returns, as for a Python name
\* bound to nothing yet.
ret == IF "value" \in DOMAIN retval THEN retval.value ELSE None

\* __init__ (lines 22-26): the key is stored; the client is built only for a truthy key.
Init ==
    /\ api_key \in ApiKeys
    /\ pc = "idle"
    /\ op = "none"
    /\ args = NoArgs
    /\ world = NoArgs
    /\ outcome = "none"
    /\ exc = "none"
    /\ retval = NoArgs
    /\ calls = 0
    /\ stdout = {}
    /\ video_ids = << >>
    /\ next_page_token = None
    /\ idx = 0
    /\ results = << >>
    /\ responses = << >>
    /\ files = << >>
    /\ fetcher_ids = << >>
    /\ trace = << >>
    /\ exchanges = << >>

\* One request of lines 113-118 (its maxResults and pageToken) with what came
\* back: the number of items and the nextPageToken of line 125, or an HttpError.
Exchange(maxResults, pageToken, items, nextPageToken, failed) ==
    [maxResults |-> maxResults, pageToken |-> pageToken, items |-> items,
     nextPageToken |-> nextPageToken, failed |-> failed]

\* The call returns value.
Return(value) ==
    /\ pc' = "done"
    /\ outcome' = "returned"
    /\ retval' = [value |-> value]
    /\ exc' = exc

\* The call raises e.
Raise(e) ==
    /\ pc' = "done"
    /\ outcome' = "raised"
    /\ exc' = e
    /\ retval' = retval

\* The call goes on at label.
Goto(label) ==
    /\ pc' = label
    /\ UNCHANGED <<outcome, exc, retval>>

\* The batch's video_ids and output_dir: the caller's arguments, or what main
\* hands over at lines 304-306, or what extract_from_url hands over at lines
\* 232 and 270: the enumerated list and no output_dir.
BatchIds == IF op = "main_url" THEN video_ids ELSE args.video_ids
BatchDir == IF op = "main_url" THEN None ELSE args.output_dir

\* What the transcript service answers to a fetch of the batch: every answer
\* when the batch is called on its own, one of each kind under main.
BatchResponses == IF op = "batch" THEN Responses ELSE MainResponses

\* An enumeration returns ids (lines 135, 159): to its caller, or into
\* extract_from_url, which hands them to the batch (lines 229-232, 267-270).
EnumReturns(ids) ==
    IF op = "main_url"
    THEN IF ids = << >> THEN Goto("summary") ELSE Goto("loop")
    ELSE Return(ids)

\* extract_transcripts_batch returns value (line 202): to its caller, or into
\* main, which goes on to its summary.
BatchReturns(value) == IF op = "batch" THEN Return(value) ELSE Goto("summary")

\* extract_video_id_from_url(url) on a reference made of a prefix, a candidate
\* identifier and a suffix.
CallResolve ==
    /\ pc = "idle"
    /\ \E pre \in Prefixes, cand \in Candidates, suf \in Suffixes :
          /\ args' = [pre |-> pre, cand |-> cand, suf |-> suf,
                      url |-> pre \o cand \o suf]
          /\ Return(extract_video_id_from_url(pre \o cand \o suf))
    /\ op' = "resolve"
    /\ UNCHANGED <<api_key, world, calls, stdout, enumVars, batchVars, trace, exchanges>>

\* get_video_transcript(video_id, language) (lines 43-68) under one answer of
\* the transcript service.
CallFetch ==
    /\ pc = "idle"
    /\ op' = "fetch"
    /\ \E video_id \in WellFormedIds, language \in Languages, resp \in FetchResponses :
          LET fetched == get_video_transcript(video_id, resp)
          IN  /\ args' = [video_id |-> video_id, language |-> language]
              /\ responses' = <<resp>>
              /\ fetcher_ids' = <<video_id>>
              /\ trace' = Append(trace, <<TranscriptEntryCall(language), 0>>)
              /\ stdout' = stdout \cup FetchNotices(resp)
              /\ IF fetched.raised THEN Raise(resp.kind) ELSE Return(fetched.value)
    /\ UNCHANGED <<api_key, world, calls, enumVars, idx, results, files, exchanges>>

\* get_playlist_video_ids up to its loop (lines 106-110), on a playlist of n items.
CallPlaylist ==
    /\ pc = "idle"
    /\ op' = "playlist"
    /\ \E n \in CollectionSizes, m \in MaxResultsValues :
          /\ args' = [max_results |-> m]
          /\ \E stalls \in StallChoices(n, m) :
                world' = [n |-> n, found |-> TRUE, stalls |-> stalls]
    /\ IF KeyMissing(api_key) THEN Raise("ValueError") ELSE Goto("paging")
    /\ video_ids' = << >>
    /\ next_page_token' = None
    /\ UNCHANGED <<api_key, calls, stdout, batchVars, trace, exchanges>>

\* get_channel_video_ids up to its lookup call (lines 148-149), on a channel
\* that exists or not, whose uploads playlist has n items.
CallChannel ==
    /\ pc = "idle"
    /\ op' = "channel"
    /\ \E n \in CollectionSizes, m \in MaxResultsValues, found \in BOOLEAN :
          /\ args' = [max_results |-> m]
          /\ world' = [n |-> IF found THEN n ELSE 0, found |-> found, stalls |-> FALSE]
    /\ IF KeyMissing(api_key) THEN Raise("ValueError") ELSE Goto("lookup")
    /\ UNCHANGED <<api_key, calls, stdout, enumVars, batchVars, trace, exchanges>>

\* Lines 152-164: the channel lookup call.  An HttpError is not caught here; an
\* empty items list prints a notice and returns []; otherwise the call goes on
\* into get_playlist_video_ids on the uploads playlist.
ChannelLookup ==
    /\ pc = "lookup"
    /\ calls' = calls + 1
    /\ \/ /\ trace' = trace \o << <<"channels.list", 0>>, <<"HttpError", 0>> >>
          /\ Raise("HttpError")
          /\ UNCHANGED <<stdout, enumVars>>
       \/ /\ ~world.found
          /\ trace' = Append(trace, <<"channels.list", 0>>)
          /\ stdout' = stdout \cup {"Channel not found"}
          /\ EnumReturns(<< >>)
          /\ UNCHANGED enumVars
       \/ /\ world.found
          /\ trace' = Append(trace, <<"channels.list", 0>>)
          /\ IF KeyMissing(api_key) THEN Raise("ValueError") ELSE Goto("paging")
          /\ video_ids' = << >>
          /\ next_page_token' = None
          /\ UNCHANGED stdout
    /\ UNCHANGED <<api_key, op, args, world, batchVars, exchanges>>

\* One iteration of the loop of get_playlist_video_ids (lines 112-135): the
\* request, then the page appended and the exit test, or an HttpError caught.
PlaylistPage ==
    /\ pc = "paging"
    /\ calls' = calls + 1
    /\ \E short \in ShortBy :
       LET size == PageSize(args.max_results, Len(video_ids))
           req == <<"list", size>>
           page == ListPlaylistItems(world.n, next_page_token, size, short)
           ids == video_ids \o page.items
       IN  \/ /\ trace' = trace \o <<req, <<"HttpError", 0>> >>
              /\ exchanges' = Append(exchanges, Exchange(size, next_page_token, 0, None, TRUE))
              /\ stdout' = stdout \cup {"Error retrieving playlist videos"}
              /\ EnumReturns(AfterHttpError(video_ids))
              /\ UNCHANGED enumVars
           \/ /\ trace' = trace \o <<req, <<"items", Len(page.items)>> >>
              /\ exchanges' = Append(exchanges, Exchange(size, next_page_token,
                                        Len(page.items), page.nextPageToken, FALSE))
              /\ video_ids' = ids
              /\ next_page_token' = page.nextPageToken
              /\ IF PagingDone(page.nextPageToken, Len(ids), args.max_results)
                 THEN EnumReturns(ids) ELSE Goto("paging")
              /\ UNCHANGED stdout
    /\ UNCHANGED <<api_key, op, args, world, batchVars>>

\* The same iteration (lines 112-129) when the endpoint answers with a page of
\* no items and a cursor: nothing is collected and the exit test is made on the
\* same count.  Such answers are followed among the first MaxCalls requests of
\* a call.
PlaylistPageStalled ==
    /\ pc = "paging"
    /\ world.stalls
    /\ calls < MaxCalls
    /\ calls' = calls + 1
    /\ LET size == PageSize(args.max_results, Len(video_ids))
       IN  \E page \in StalledPages(next_page_token) :
              LET ids == video_ids \o page.items
              IN  /\ trace' = trace \o << <<"list", size>>, <<"items", Len(page.items)>> >>
                  /\ exchanges' = Append(exchanges, Exchange(size, next_page_token,
                                            Len(page.items), page.nextPageToken, FALSE))
                  /\ video_ids' = ids
                  /\ next_page_token' = page.nextPageToken
                  /\ IF PagingDone(page.nextPageToken, Len(ids), args.max_results)
                     THEN EnumReturns(ids) ELSE Goto("paging")
    /\ UNCHANGED <<api_key, op, args, world, stdout, batchVars>>

\* extract_transcripts_batch up to its loop (lines 180-185).
CallBatch ==
    /\ pc = "idle"
    /\ op' = "batch"
    /\ \E ids \in Batches, dir \in OutputDirs :
          /\ args' = [video_ids |-> ids, output_dir |-> dir]
          /\ IF ids = << >> THEN Return(<< >>) ELSE Goto("loop")
    /\ idx' = 0
    /\ results' = << >>
    /\ responses' = << >>
    /\ files' = << >>
    /\ fetcher_ids' = << >>
    /\ UNCHANGED <<api_key, world, calls, stdout, enumVars, trace, exchanges>>

\* main in batch-file mode up to the batch's loop (lines 291-306, 180-185): the
\* file read, its non-blank lines resolved, the failures reported, the batch
\* entered.  A file that cannot be opened raises out of main.
CallMainFile ==
    /\ pc = "idle"
    /\ op' = "main_file"
    /\ \E lines \in FileContents, dir \in OutputDirs, readable \in BOOLEAN :
          LET video_urls == VideoUrls(lines)
              ids == ResolveAll(video_urls)
          IN  /\ world' = [readable |-> readable, lines |-> lines]
              /\ IF ~readable
                 THEN /\ args' = [video_list |-> TRUE, output_dir |-> dir, video_ids |-> << >>]
                      /\ Raise("OSError")
                      /\ UNCHANGED stdout
                 ELSE /\ args' = [video_list |-> TRUE, output_dir |-> dir, video_ids |-> ids]
                      /\ stdout' = IF SomeUnresolved(video_urls)
                                   THEN stdout \cup {"Could not extract video ID"}
                                   ELSE stdout
                      /\ IF ids = << >> THEN Goto("summary") ELSE Goto("loop")
    /\ idx' = 0
    /\ results' = << >>
    /\ responses' = << >>
    /\ files' = << >>
    /\ fetcher_ids' = << >>
    /\ UNCHANGED <<api_key, calls, enumVars, trace, exchanges>>

\* Lines 220 and 314-331: the single video fetched under the service's answer
\* resp, and what main does with the dictionary: an error printed, after the
\* fetcher's own notice; a transcript's header and text printed and, with an
\* output directory, written to {video_id}.txt; an empty transcript reported.
\* An exception of the fetch leaves main.
MainVideo(video_id, resp, dir) ==
    LET fetched == get_video_transcript(video_id, resp)
        result == fetched.value
    IN  /\ fetcher_ids' = <<video_id>>
        /\ responses' = <<resp>>
        /\ trace' = Append(trace, <<"fetch", 1>>)
        /\ world' = world
        /\ idx' = idx
        /\ IF fetched.raised
           THEN /\ Raise(resp.kind)
                /\ UNCHANGED <<stdout, results, files>>
           ELSE /\ Return(None)
                /\ results' = <<result>>
                /\ IF "error" \in DOMAIN result
                   THEN /\ stdout' = stdout \cup FetchNotices(resp)
                                           \cup {"Error", result.error}
                        /\ files' = files
                   ELSE IF Truthy(result.transcript)
                   THEN IF Truthy(dir)
                        THEN /\ stdout' = stdout \cup {"Transcript for video",
                                                        "transcript text",
                                                        "Saved complete transcript to"}
                             /\ files' = WriteFile(files, FileName(result.video_id),
                                                   result.transcript)
                        ELSE /\ stdout' = stdout \cup {"Transcript for video",
                                                        "transcript text"}
                             /\ files' = files
                   ELSE /\ stdout' = stdout \cup {"No transcript available for video"}
                        /\ files' = files

\* main on a single input up to the first loop (lines 314-331, 216-242,
\* 106-110, 148-149): a video reference is resolved, fetched, printed and saved
\* in this one step; a playlist or channel URL is taken as far as the first
\* remote call of its enumeration; every error dictionary is printed and main
\* returns; an exception leaves main.
CallMainUrl ==
    /\ pc = "idle"
    /\ op' = "main_url"
    /\ \E url \in MainInputs, dir \in OutputDirs :
          LET kind == UrlKind(url)
              Error(msg) == /\ stdout' = stdout \cup {"Error", msg}
                            /\ Return(None)
                            /\ UNCHANGED <<world, batchVars, trace>>
              World == {[n |-> IF found THEN n ELSE 0, found |-> found, stalls |-> FALSE] :
                           n \in 0..MaxBatch,
                           found \in IF kind = "channel" THEN BOOLEAN ELSE {TRUE}}
          IN  /\ args' = [url |-> url, output_dir |-> dir,
                          max_results |-> DefaultMaxResults]
              /\ CASE kind = "video" ->
                        LET video_id == extract_video_id_from_url(url)
                        IN  IF ~Truthy(video_id)
                            THEN Error("Invalid YouTube video URL")
                            ELSE \E resp \in MainResponses :
                                    MainVideo(video_id, resp, dir)
                   [] kind = "playlist" ->
                        IF PlaylistIdOf(url) = None
                        THEN Error("Invalid YouTube playlist URL")
                        ELSE /\ \E w \in World : world' = w
                             /\ IF KeyMissing(api_key)
                                THEN Raise("ValueError") ELSE Goto("paging")
                             /\ UNCHANGED <<stdout, batchVars, trace>>
                   [] kind = "channel" ->
                        IF ~Truthy(api_key)
                        THEN Error("YouTube API key required for channel operations")
                        ELSE /\ \E w \in World : world' = w
                             /\ IF Contains(url, ChannelPath)
                                THEN IF KeyMissing(api_key)
                                     THEN Raise("ValueError") ELSE Goto("lookup")
                                ELSE Goto("name_lookup")
                             /\ UNCHANGED <<stdout, batchVars, trace>>
                   [] OTHER ->
                        Error("URL not recognized as YouTube video, playlist, or channel")
    /\ video_ids' = << >>
    /\ next_page_token' = None
    /\ UNCHANGED <<api_key, calls, exchanges>>

\* Lines 245-265: the channel of a /c/ or /user/ URL looked up by name.  An
\* HttpError and an empty answer each give an error dictionary, which main
\* prints; otherwise get_channel_video_ids is entered (lines 267, 148-149).
MainChannelName ==
    /\ pc = "name_lookup"
    /\ calls' = calls + 1
    /\ LET call == IF Contains(args.url, CustomPath) THEN "search.list" ELSE "channels.forUsername"
       IN  \/ /\ trace' = trace \o << <<call, 0>>, <<"HttpError", 0>> >>
              /\ stdout' = stdout \cup {"Error", "YouTube API error"}
              /\ Return(None)
           \/ /\ trace' = Append(trace, <<call, 0>>)
              /\ stdout' = stdout \cup {"Error", "Channel not found"}
              /\ Return(None)
           \/ /\ trace' = Append(trace, <<call, 0>>)
              /\ IF KeyMissing(api_key) THEN Raise("ValueError") ELSE Goto("lookup")
              /\ UNCHANGED stdout
    /\ UNCHANGED <<api_key, op, args, world, enumVars, batchVars, exchanges>>

\* The end of main after a batch (lines 309-311, 334-345): the summary printed,
\* and main returns.
MainSummary ==
    /\ pc = "summary"
    /\ stdout' = stdout \cup {"Processed"}
                    \cup (IF op = "main_url" THEN {"Successfully extracted"} ELSE {})
                    \cup (IF op = "main_url" /\ Truthy(args.output_dir)
                          THEN {"Transcripts saved to"} ELSE {})
    /\ Return(None)
    /\ UNCHANGED <<api_key, op, args, world, calls, enumVars, batchVars, trace, exchanges>>

\* One iteration of the loop of extract_transcripts_batch (lines 185-202): the
\* progress line, the fetch with its notice, the result appended, the file
\* written and reported, the sleep; or the fetch's exception, which nothing
\* catches.
BatchIteration ==
    /\ pc = "loop"
    /\ \E resp \in BatchResponses :
          LET n == Len(BatchIds)
              video_id == BatchIds[idx + 1]
              fetched == get_video_transcript(video_id, resp)
              data == fetched.value
              appended == Append(results, data)
          IN  /\ responses' = Append(responses, resp)
              /\ fetcher_ids' = Append(fetcher_ids, video_id)
              /\ IF fetched.raised
                 THEN /\ trace' = Append(trace, <<"fetch", idx + 1>>)
                      /\ stdout' = stdout \cup {"Processing video"}
                      /\ Raise(resp.kind)
                      /\ UNCHANGED <<idx, results, files>>
                 ELSE /\ results' = appended
                      /\ files' = IF ShouldSave(BatchDir, data.transcript)
                                  THEN WriteFile(files, FileName(video_id), data.transcript)
                                  ELSE files
                      /\ stdout' = stdout \cup {"Processing video"}
                                           \cup FetchNotices(resp)
                                           \cup (IF ShouldSave(BatchDir, data.transcript)
                                                 THEN {"Saved transcript to"} ELSE {})
                      /\ trace' = IF SleepAfter(idx, n)
                                  THEN trace \o << <<"fetch", idx + 1>>, <<"sleep", idx + 1>> >>
                                  ELSE Append(trace, <<"fetch", idx + 1>>)
                      /\ idx' = idx + 1
                      /\ IF idx + 1 < n THEN Goto("loop") ELSE BatchReturns(appended)
    /\ UNCHANGED <<api_key, op, args, world, calls, enumVars, exchanges>>

Next ==
    \/ CallResolve
    \/ CallFetch
    \/ CallPlaylist
    \/ CallChannel
    \/ ChannelLookup
    \/ PlaylistPage
    \/ PlaylistPageStalled
    \/ CallBatch
    \/ BatchIteration
    \/ CallMainFile
    \/ CallMainUrl
    \/ MainChannelName
    \/ MainSummary

Spec == Init /\ [][Next]_vars

\* ------------------------------------------------------------------ claims

BatchDone == pc = "done" /\ op = "batch"
EnumCall == op \in {"playlist", "channel"}

\* C1: for every batch and every combination of fetch outcomes,
\* extract_transcripts_batch returns a sequence as long as its input whose i-th
\* result carries the i-th identifier.  An unexpected fetch failure makes the
\* code raise instead of returning.
C1_BatchReturnsOneResultPerInput ==
    BatchDone =>
        /\ outcome = "returned"
        /\ Len(ret) = Len(args.video_ids)
        /\ \A i \in 1..Len(args.video_ids) : ret[i].video_id = args.video_ids[i]

\* C2: an unexpected failure of the fetch of item i is recorded as result i
\* (transcript absent, error populated), the results of the items before it are
\* those their fetches gave, and every later item is still fetched.  The code has
\* no handler for it, so the batch ends at item i.
C2_UnexpectedFailureIsContained ==
    BatchDone =>
        \A i \in 1..Len(responses) :
            responses[i].kind \notin (CaughtKinds \cup {"ok"}) =>
                /\ outcome = "returned"
                /\ Len(responses) = Len(args.video_ids)
                /\ Len(ret) = Len(args.video_ids)
                /\ ret[i].transcript = None
                /\ "error" \in DOMAIN ret[i]
                /\ \A j \in 1..(i - 1) :
                      ret[j] = get_video_transcript(args.video_ids[j], responses[j]).value

\* No call on the listing endpoint raised HttpError.
NoHttpError == \A k \in 1..Len(trace) : trace[k][1] # "HttpError"

\* C3: with max_results > 0 and no endpoint error, get_playlist_video_ids returns
\* exactly the first min(N, max_results) identifiers of the collection, in
\* listing order.
C3_PlaylistReturnsFirstMin ==
    (pc = "done" /\ EnumCall /\ outcome = "returned" /\ world.found /\ NoHttpError) =>
        ret = FirstIds(Min(world.n, args.max_results))

\* C3's case: a collection of 120 items listed with max_results = 50.
C3_Witness ==
    /\ pc = "done" /\ op = "playlist" /\ outcome = "returned" /\ NoHttpError
    /\ world.n = 120 /\ args.max_results = 50
    /\ Len(ret) = 50

\* The number of items the listing endpoint has handed over.
RECURSIVE ItemsReceived(_)
ItemsReceived(tr) ==
    IF tr = << >> THEN 0
    ELSE (IF Head(tr)[1] = "items" THEN Head(tr)[2] ELSE 0) + ItemsReceived(Tail(tr))

\* The number of requests sent to the content API.
RECURSIVE RequestsSent(_)
RequestsSent(tr) ==
    IF tr = << >> THEN 0
    ELSE (IF Head(tr)[1] \in {"list", "channels.list"} THEN 1 ELSE 0)
            + RequestsSent(Tail(tr))

\* C4: when a list-playlist-items call fails with an endpoint error, the
\* enumeration makes no further call, raises nothing and returns exactly the
\* identifiers of the pages received before, a prefix of the collection.
C4_HttpErrorReturnsPartial ==
    EnumCall =>
        \A k \in 2..Len(trace) :
            (trace[k][1] = "HttpError" /\ trace[k - 1][1] = "list") =>
                /\ k = Len(trace)
                /\ calls = RequestsSent(trace)
                /\ pc = "done"
                /\ outcome = "returned"
                /\ ret = FirstIds(ItemsReceived(trace))
                /\ Len(ret) <= world.n

\* C4's case: the second page fails after a first page of 50 was received.
C4_Witness ==
    /\ pc = "done" /\ op = "playlist" /\ outcome = "returned"
    /\ Len(trace) = 4
    /\ trace[2] = <<"items", 50>>
    /\ trace[4][1] = "HttpError"
    /\ Len(ret) = 50

\* C5: without a credential, get_playlist_video_ids and get_channel_video_ids end
\* in the configuration error, and no remote call is issued.
C5_NoCredentialRaisesBeforeAnyCall ==
    (EnumCall /\ ~Truthy(api_key)) =>
        /\ pc = "done"
        /\ outcome = "raised"
        /\ exc = "ValueError"
        /\ calls = 0
        /\ trace = << >>

\* C5's case: a channel enumeration asked of an extractor built without a key.
C5_Witness ==
    /\ op = "channel" /\ api_key = None
    /\ pc = "done" /\ outcome = "raised"

\* What the caller of an enumeration receives.
Received == [outcome |-> outcome, value |-> IF outcome = "returned" THEN ret ELSE None]

\* What the caller receives for an existing channel that has no uploads.
ZeroUploadsReceived == [outcome |-> "returned", value |-> << >>]

\* An existing channel with no uploads gives the caller ZeroUploadsReceived.
ChannelWithoutUploadsReturnsEmpty ==
    (pc = "done" /\ op = "channel" /\ outcome = "returned" /\ world.found
        /\ world.n = 0 /\ NoHttpError) => Received = ZeroUploadsReceived

\* C6: when the channel lookup finds no channel, the caller receives something
\* it can tell from what it receives for an existing channel without uploads.
\* The code prints a notice and returns the same empty list.
C6_NotFoundIsDistinguishable ==
    (pc = "done" /\ op = "channel" /\ outcome = "returned" /\ ~world.found) =>
        Received # ZeroUploadsReceived

\* The files a batch must have written once it has collected the results rs:
\* one per identifier with a non-empty transcript, holding the transcript of
\* the last such result.
ExpectedFiles(rs) ==
    LET saved == {j \in 1..Len(rs) : Truthy(rs[j].transcript)}
        names == {FileName(rs[j].video_id) : j \in saved}
        lastOf(f) == CHOOSE j \in saved :
                        /\ FileName(rs[j].video_id) = f
                        /\ \A h \in saved : FileName(rs[h].video_id) = f => h <= j
    IN  [f \in names |-> rs[lastOf(f)].transcript]

\* C7 as stated: after a batch with an output directory, the files written are
\* those of the results whose transcript is non-absent, the empty transcript
\* included.
C7_FilesForEveryNonAbsentTranscript ==
    (BatchDone /\ outcome = "returned" /\ Truthy(args.output_dir)) =>
        DOMAIN files = {FileName(ret[j].video_id) :
                            j \in {h \in 1..Len(ret) : ret[h].transcript # None}}

\* C7, amended: with an output directory, the files written are at every moment
\* exactly {video_id}.txt for each collected result whose transcript is
\* non-empty, each holding that result's transcript (the last write wins); no
\* file is written for a result with an error or with an empty transcript.
C7_FilesForEveryNonEmptyTranscript ==
    (op = "batch" /\ Truthy(args.output_dir)) =>
        /\ files = ExpectedFiles(results)
        /\ (pc = "done" /\ outcome = "returned") => files = ExpectedFiles(ret)

\* C7's case: a batch of three whose second item has transcripts disabled and
\* whose first and third succeed writes exactly two files.
C7_Witness ==
    /\ BatchDone /\ outcome = "returned" /\ Truthy(args.output_dir)
    /\ Len(ret) = 3
    /\ Truthy(ret[1].transcript)
    /\ ret[2].transcript = None /\ ret[2].error = "TranscriptsDisabled"
    /\ Truthy(ret[3].transcript)
    /\ Cardinality(DOMAIN files) = 2

\* Fetch 1, sleep, fetch 2, sleep, ..., fetch n.
ExpectedTrace(n) ==
    [k \in 1..(2 * n - 1) |->
        IF k % 2 = 1 THEN <<"fetch", (k + 1) \div 2>> ELSE <<"sleep", k \div 2>>]

\* C8: a batch over n identifiers fetches each position exactly once, in order,
\* with a pacing delay exactly between consecutive fetches, whatever the
\* fetches' outcomes.  After an unexpected failure the code fetches no later
\* position.
C8_EveryPositionFetchedOncePaced ==
    BatchDone => trace = ExpectedTrace(Len(args.video_ids))

\* A valid short link or watch URL embedding a well-formed identifier.
ValidVideoUrl(a) ==
    /\ a.cand \in ResolverIds
    /\ \/ a.pre = PrefixShort /\ a.suf \in {<< >>, SufQueryT}
       \/ a.pre = PrefixWatch /\ a.suf \in {<< >>, SufAmpT, SufFeature}

\* C9: for every valid short-link or watch URL embedding a well-formed
\* identifier, extract_video_id_from_url returns that identifier.  A watch URL
\* that carries feature=youtu.be is taken for a short link.
C9_ValidUrlResolvesToItsId ==
    (pc = "done" /\ op = "resolve" /\ ValidVideoUrl(args)) => ret = args.cand

\* A reference with no identifier or with a candidate of another length than 11.
MalformedReference(a) ==
    /\ a.cand \notin ResolverIds
    /\ a.suf = << >>

\* C10: for every malformed input, extract_video_id_from_url returns None.  The
\* short-link branch returns the last path segment whatever it is.
C10_MalformedResolvesToNone ==
    (pc = "done" /\ op = "resolve" /\ MalformedReference(args)) =>
        (outcome = "returned" /\ ret = None)

\* A fetch on its own has ended.
FetchDone == pc = "done" /\ op = "fetch"

\* A result dictionary holds a transcript (present and not None), an error
\* (present and not the empty text).
HasTranscript(d) == "transcript" \in DOMAIN d /\ d.transcript # None
HasError(d) == "error" \in DOMAIN d /\ d.error # ""

\* C11: every result get_video_transcript returns has exactly one of
\* transcript / error populated; a successful fetch gives a transcript and no
\* error; transcripts disabled and no transcript found are caught and give the
\* transcript absent, the error populated and the requested video_id.
C11_ExactlyOneOfTranscriptAndError ==
    FetchDone =>
        /\ outcome = "returned" =>
              /\ HasTranscript(ret) # HasError(ret)
              /\ ret.video_id = args.video_id
        /\ responses[1].kind = "ok" =>
              /\ outcome = "returned"
              /\ HasTranscript(ret) /\ "error" \notin DOMAIN ret
        /\ responses[1].kind \in {"TranscriptsDisabled", "NoTranscriptFound"} =>
              /\ outcome = "returned"
              /\ ret.transcript = None
              /\ HasError(ret)
              /\ ret.video_id = args.video_id

\* C11's case: no transcript in the requested language.
C11_Witness ==
    /\ FetchDone /\ outcome = "returned"
    /\ args.language = LangEn
    /\ responses[1].kind = "NoTranscriptFound"
    /\ ret.transcript = None

\* The segments' texts one after the other, nothing between them.
RECURSIVE Flatten(_)
Flatten(parts) == IF parts = << >> THEN << >> ELSE Head(parts) \o Flatten(Tail(parts))

IsSolid(c) == c \notin {" ", "\n", "\t", "\r"}
Solid(s) == SelectSeq(s, IsSolid)

\* C14: the transcript of a successful fetch is one line, has no two adjacent
\* whitespace characters and no whitespace at either end, and its
\* non-whitespace characters are those of the segments, in order.
C14_TranscriptIsNormalized ==
    (FetchDone /\ outcome = "returned" /\ responses[1].kind = "ok") =>
        LET t == ret.transcript
        IN  /\ \A i \in 1..Len(t) : ~IsSolid(t[i]) => t[i] = " "
            /\ \A i \in 1..(Len(t) - 1) : IsSolid(t[i]) \/ IsSolid(t[i + 1])
            /\ t # << >> => IsSolid(t[1]) /\ IsSolid(t[Len(t)])
            /\ Solid(t) = Solid(Flatten(responses[1].segments))
            /\ responses[1].segments = <<Seg1, Seg2, Seg3>> =>
                  t = SubSeq(Seg1, 1, 5) \o <<" ">> \o SubSeq(Seg2, 1, 5) \o <<" ">> \o Seg3

\* C14's case: segments that end in and consist of whitespace.
C14_Witness ==
    /\ FetchDone /\ outcome = "returned"
    /\ responses[1] = RespOk(<<SegWs, SegBlank>>)
    /\ ret.transcript = <<"a", " ", "b", " ", "c">>

\* x is 11 characters of the identifier alphabet, or that and a final newline,
\* which the pattern's $ lets through.
IsIdentifier(x) == Len(x) = 11 /\ \A i \in 1..11 : x[i] \in IdChars
MatchesIdPattern(x) ==
    \/ IsIdentifier(x)
    \/ Len(x) = 12 /\ x[12] = "\n" /\ IsIdentifier(SubSeq(x, 1, 11))

\* C15: for every string x that matches the identifier pattern,
\* extract_video_id_from_url(x) is x, and resolving the result again gives it
\* again.
C15_IdentifierResolvesToItself ==
    (pc = "done" /\ op = "resolve" /\ MatchesIdPattern(args.url)) =>
        /\ outcome = "returned"
        /\ ret = args.url
        /\ extract_video_id_from_url(ret) = ret

\* C15's case: an identifier that begins with v and holds most of the short host.
C15_Witness ==
    /\ pc = "done" /\ op = "resolve"
    /\ args.url = IdV
    /\ ret = IdV

\* C12: in batch-file mode the list handed to the batch holds, in the order of
\* the file, the identifier resolved from each line that is not blank and
\* resolves, and nothing else: a blank line or a line that does not resolve
\* adds nothing and stops no later line; and a run that ends without an
\* exception has fetched every identifier of the list, in order.
C12_HandedListIsResolvedSubsequence ==
    (op = "main_file" /\ world.readable) =>
        LET lines == world.lines
            Resolved(i) == extract_video_id_from_url(Strip(lines[i]))
            kept == {i \in 1..Len(lines) :
                        Strip(lines[i]) # << >> /\ Truthy(Resolved(i))}
            Rank(i) == Cardinality({h \in kept : h <= i})
        IN  /\ Len(args.video_ids) = Cardinality(kept)
            /\ \A i \in kept : args.video_ids[Rank(i)] = Resolved(i)
            /\ (pc = "done" /\ outcome = "returned") => fetcher_ids = args.video_ids

\* C12's case: a word that is no reference between a short link and an
\* identifier; both identifiers are handed over and fetched.
C12_Witness ==
    /\ pc = "done" /\ op = "main_file" /\ outcome = "returned"
    /\ world.lines = <<LineShortUrl, LineWord, LineId>>
    /\ args.video_ids = <<IdB, IdA>>
    /\ fetcher_ids = <<IdB, IdA>>
    /\ "Could not extract video ID" \in stdout

\* A run of the command, in either mode.
MainCall == op \in {"main_file", "main_url"}

\* The run lacks what its operation cannot do without: the credential, for a
\* channel URL or a playlist URL that names a playlist, or a batch file that
\* can be read.
ConfigFatal ==
    \/ op = "main_file" /\ ~world.readable
    \/ /\ op = "main_url"
       /\ ~Truthy(api_key)
       /\ \/ UrlKind(args.url) = "channel"
          \/ UrlKind(args.url) = "playlist" /\ PlaylistIdOf(args.url) # None

\* Nothing failed but items: no remote call raised HttpError and every fetch
\* gave a transcript or found it disabled or missing.
OnlyItemsFail ==
    /\ ~ConfigFatal
    /\ NoHttpError
    /\ \A i \in 1..Len(responses) :
          responses[i].kind \in {"ok", "TranscriptsDisabled", "NoTranscriptFound"}

\* C13: a run in which only items fail exits with status zero, and a run that
\* lacks the credential for a playlist or channel URL, or whose batch file
\* cannot be read, exits with a non-zero status.  For a channel URL the code
\* returns an error dictionary at lines 237-238, which main prints, and the
\* status is zero.
C13_ExitStatusTellsFatalFromItemFailure ==
    (pc = "done" /\ MainCall) =>
        /\ OnlyItemsFail => ExitStatus(outcome) = 0
        /\ ConfigFatal => ExitStatus(outcome) # 0

\* C16: a bare identifier given as the single input is fetched as a video, and
\* the dispatcher does not answer it with "not recognized".  The code tests the
\* input for URL substrings only (lines 216-236), so a bare identifier falls
\* through to line 273.
C16_BareIdentifierIsFetched ==
    (pc = "done" /\ op = "main_url" /\ IsIdentifier(args.url)) =>
        /\ fetcher_ids = <<args.url>>
        /\ "URL not recognized as YouTube video, playlist, or channel" \notin stdout

\* The run's identifiers come from the user's input through the resolver.
FromUserInput ==
    \/ op = "main_file"
    \/ op = "main_url" /\ UrlKind(args.url) = "video"

\* C17: every identifier that a run hands to get_video_transcript, and every
\* identifier that names an output file, having come from the user's input, is
\* 11 characters of the identifier alphabet.  The short-link rule of lines
\* 81-82 returns whatever follows the last slash, unvalidated.
C17_OnlyWellFormedIdsAreUsed ==
    FromUserInput =>
        /\ \A i \in 1..Len(fetcher_ids) : IsIdentifier(fetcher_ids[i])
        /\ \A f \in DOMAIN files :
              /\ Len(f) = 15
              /\ IsIdentifier(SubSeq(f, 1, 11))
              /\ SubSeq(f, 12, 15) = <<".", "t", "x", "t">>

\* C19: a run on a playlist or channel URL with an output directory that
\* reports "Transcripts saved to" has written {video_id}.txt for every result
\* with a transcript.  extract_from_url calls the batch without output_dir
\* (lines 232 and 270), so nothing is written.
C19_CollectionTranscriptsAreSaved ==
    (/\ pc = "done" /\ op = "main_url" /\ outcome = "returned"
     /\ UrlKind(args.url) \in {"playlist", "channel"}
     /\ Truthy(args.output_dir)
     /\ "Transcripts saved to" \in stdout) =>
        \A j \in 1..Len(results) :
            Truthy(results[j].transcript) =>
                /\ FileName(results[j].video_id) \in DOMAIN files
                /\ files[FileName(results[j].video_id)] = results[j].transcript

\* The items that the responses before request k carried.
RECURSIVE ItemsBefore(_, _)
ItemsBefore(log, k) == IF k <= 1 THEN 0 ELSE ItemsBefore(log, k - 1) + log[k - 1].items

\* C18: every list request of get_playlist_video_ids asks for a page of 1 to 50
\* items and for no more than max_results less the items received so far; the
\* first request carries no cursor; every later request carries the cursor of
\* the response just before it, which held one and was no error, and is sent
\* only while fewer than max_results items were received.
C18_RequestsFollowTheCursor ==
    EnumCall =>
        \A k \in 1..Len(exchanges) :
            LET e == exchanges[k]
                before == ItemsBefore(exchanges, k)
            IN  /\ e.maxResults >= 1
                /\ e.maxResults <= 50
                /\ e.maxResults <= args.max_results - before
                /\ before < args.max_results
                /\ k = 1 => e.pageToken = None
                /\ k > 1 => /\ ~exchanges[k - 1].failed
                            /\ exchanges[k - 1].nextPageToken # None
                            /\ e.pageToken = exchanges[k - 1].nextPageToken

\* C18's case: 110 of 120 items asked for, received in three pages, the second
\* one item short, so that the third request asks for 11 from offset 99.
C18_Witness ==
    /\ pc = "done" /\ op = "playlist" /\ outcome = "returned"
    /\ args.max_results = 110 /\ world.n = 120
    /\ Len(exchanges) = 3
    /\ exchanges[2].items = 49
    /\ exchanges[3].maxResults = 11
    /\ exchanges[3].pageToken = Cursor(99)
    /\ ~exchanges[3].failed

\* C20: get_playlist_video_ids always terminates, whatever the listing endpoint
\* answers, pages of no items with a cursor included.  The endpoint may answer
\* a request it has answered before in the same way again, so the loop exits
\* under every behaviour only if no iteration leaves it where it was: in the
\* loop, with the same identifiers collected and the same cursor to send.
C20_LoopNeverStandsStill ==
    [][(pc = "paging" /\ pc' = "paging") =>
            <<video_ids, next_page_token>>' # <<video_ids, next_page_token>>]_vars

====
